---- MODULE Spec2Model ----
(***************************************************************************)
(* A model of deepmd/dpmodel/output_def.py: the output variable            *)
(* definitions, the category bit-flag algebra, the derivation of the model *)
(* output schema from a fitting output schema, and the shape checks of the *)
(* produced tensors.                                                       *)
(*                                                                         *)
(* Python values are modelled as follows.  A list of ints is a sequence of *)
(* integers; a str is a TLA+ string (names are concatenated with \o as the *)
(* code concatenates them with +); a dict is a sequence of its values in   *)
(* insertion order, each value carrying its key in the field name (every   *)
(* dict of the module maps a definition's name to the definition); a       *)
(* raised exception is a string naming it, NoError when nothing is raised. *)
(***************************************************************************)
EXTENDS Integers, Sequences, FiniteSets, TLC

VARIABLES
    op_name,     \* the operation the last step performed
    raised,      \* the exception the last step raised, NoError if none
    def_args,    \* SpecDef: the arguments of the last OutputVariableDef(...)
    def_obj,     \* SpecDef: the object it constructed, None if it raised
    category,    \* SpecCat: the category threaded through apply_operation
    cat_start,   \* SpecCat: the category the thread started from
    cat_call,    \* SpecCat: the last apply_operation call (op, category given)
    applied,     \* SpecCat: the operations that returned so far, in order
    shape_call,  \* SpecShape: the check_shape / check_var call (atomic is
                 \* var_def.atomic, read by check_var only)
    fit_defs,    \* SpecModel, SpecWrap, SpecUse: FittingOutputDef.var_defs
    md,          \* SpecModel, SpecWrap, SpecUse: the ModelOutputDef built from it
    ret,         \* SpecWrap, SpecUse: the result mapping of the wrapped call, a
                 \* function from the names it holds to the tensors' shapes
    returned,    \* SpecWrap: <<the mapping the wrapper returned>>, <<>> if
                 \* it has returned nothing
    squeezes     \* SpecUse: the number of squeeze calls made on the
                 \* definitions of the two schemas

vars == <<op_name, raised, def_args, def_obj, category, cat_start, cat_call,
          applied, shape_call, fit_defs, md, ret, returned, squeezes>>

NoError == "NoError"
None == "None"

(***************************************************************************)
(* Bounds of the model.                                                    *)
(***************************************************************************)
\* the longest shape a variable definition declares
MaxRank == 2
\* the width of the categories apply_operation is tried on: 0 .. 2^CategoryBits - 1
CategoryBits == 5
\* the number of base variables of a fitting schema
MaxVars == 2
\* the number of names of a result mapping whose tensor is missing or misshapen
MaxFaults == 1
\* the leading dimensions of the tensors produced: frames and local atoms
Frames == 2
LocalAtoms == 4
\* the number of squeeze calls made on the definitions of a built schema
MaxSqueezes == 2

(***************************************************************************)
(* Python list helpers.                                                    *)
(***************************************************************************)
\* lst[:-1]
DropLast(lst) == IF Len(lst) = 0 THEN <<>> ELSE SubSeq(lst, 1, Len(lst) - 1)

\* lst[n:]
DropFirst(lst, n) == IF n >= Len(lst) THEN <<>> ELSE SubSeq(lst, n + 1, Len(lst))

\* all sequences over S of length at most n
SeqsUpTo(S, n) == UNION {[1..k -> S] : k \in 0..n}

(***************************************************************************)
(* OutputVariableOperation and OutputVariableCategory.                     *)
(***************************************************************************)
OP_NONE == 0
REDU == 1
DERV_R == 2
DERV_C == 4
SEC_DERV_R == 8
MAG == 16

OutputVariableOperation == {OP_NONE, REDU, DERV_R, DERV_C, SEC_DERV_R, MAG}

OUT == 0

\* Python's a & b and a | b on non-negative ints
RECURSIVE BitAnd(_, _)
BitAnd(a, b) ==
    IF a = 0 \/ b = 0 THEN 0
    ELSE (IF a % 2 = 1 /\ b % 2 = 1 THEN 1 ELSE 0) + 2 * BitAnd(a \div 2, b \div 2)

RECURSIVE BitOr(_, _)
BitOr(a, b) ==
    IF a = 0 THEN b
    ELSE IF b = 0 THEN a
    ELSE (IF a % 2 = 1 \/ b % 2 = 1 THEN 1 ELSE 0) + 2 * BitOr(a \div 2, b \div 2)

\* the ValueError messages of apply_operation
ErrApplied == "operation has been applied"
ErrAppliedTwice == "operation has been applied twice"
ErrNotSupported == "operation not supported"

\* what a call gives its caller: the exception it raised, or its value
Raise(e) == [raised |-> e, value |-> None]
Return(v) == [raised |-> NoError, value |-> v]

check_operation_applied(var_def, op) == BitAnd(var_def.category, op) = op

\* apply_operation had it not tested whether REDU or DERV_C was applied
apply_operation_redu_unchecked(var_def, op) ==
    IF op = REDU \/ op = DERV_C THEN
        Return(BitOr(var_def.category, op))
    ELSE IF op = DERV_R THEN
        IF check_operation_applied(var_def, DERV_R) THEN
            IF check_operation_applied(var_def, SEC_DERV_R)
            THEN Raise(ErrAppliedTwice)
            ELSE Return(BitOr(var_def.category, SEC_DERV_R))
        ELSE Return(BitOr(var_def.category, DERV_R))
    ELSE Raise(ErrNotSupported)

\* apply_operation had it not promoted a repeated DERV_R
apply_operation_no_second(var_def, op) ==
    IF op = REDU \/ op = DERV_C THEN
        IF check_operation_applied(var_def, op)
        THEN Raise(ErrApplied)
        ELSE Return(BitOr(var_def.category, op))
    ELSE IF op = DERV_R THEN
        Return(BitOr(var_def.category, DERV_R))
    ELSE Raise(ErrNotSupported)

apply_operation(var_def, op) ==
    IF op = REDU \/ op = DERV_C THEN
        IF check_operation_applied(var_def, op)
        THEN Raise(ErrApplied)
        ELSE Return(BitOr(var_def.category, op))
    ELSE IF op = DERV_R THEN
        IF check_operation_applied(var_def, DERV_R) THEN
            IF check_operation_applied(var_def, SEC_DERV_R)
            THEN Raise(ErrAppliedTwice)
            ELSE Return(BitOr(var_def.category, SEC_DERV_R))
        ELSE Return(BitOr(var_def.category, DERV_R))
    ELSE Raise(ErrNotSupported)

check_deriv(var_def) ==
    \/ check_operation_applied(var_def, DERV_R)
    \/ check_operation_applied(var_def, SEC_DERV_R)
    \/ check_operation_applied(var_def, DERV_C)

(***************************************************************************)
(* OutputVariableDef.                                                      *)
(***************************************************************************)
\* the ValueError messages of OutputVariableDef.__init__
ErrCDiff == "c differentiable requires r_differentiable"
ErrReducible == "a reducible variable should be atomic"
ErrIntensive == "an intensive variable should be reducible"
ErrHessReducible == "only reducible variable can calculate hessian"
ErrHessRDiff == "only r_differentiable variable can calculate hessian"

\* the parameters of __init__ with their default values
DefaultArgs(name, shape) ==
    [name |-> name, shape |-> shape, reducible |-> FALSE,
     r_differentiable |-> FALSE, c_differentiable |-> FALSE, atomic |-> TRUE,
     category |-> OUT, r_hessian |-> FALSE, magnetic |-> FALSE,
     intensive |-> FALSE]

\* the loop over range(len_shape) that multiplies output_size up
RECURSIVE OutputSize(_)
OutputSize(shape) ==
    IF Len(shape) = 0 THEN 1 ELSE OutputSize(DropLast(shape)) * shape[Len(shape)]

\* the first raise statement __init__ reaches, NoError if it reaches none
\* (the variant below is __init__ without the test of intensive)
InitRaises_no_intensive(a) ==
    IF a.c_differentiable /\ ~a.r_differentiable THEN ErrCDiff
    ELSE IF a.reducible /\ ~a.atomic THEN ErrReducible
    ELSE IF a.r_hessian /\ ~a.reducible THEN ErrHessReducible
    ELSE IF a.r_hessian /\ ~a.r_differentiable THEN ErrHessRDiff
    ELSE NoError

InitRaises(a) ==
    IF a.c_differentiable /\ ~a.r_differentiable THEN ErrCDiff
    ELSE IF a.reducible /\ ~a.atomic THEN ErrReducible
    ELSE IF a.intensive /\ ~a.reducible THEN ErrIntensive
    ELSE IF a.r_hessian /\ ~a.reducible THEN ErrHessReducible
    ELSE IF a.r_hessian /\ ~a.r_differentiable THEN ErrHessRDiff
    ELSE NoError

\* the attributes __init__ sets
InitAttrs(a) ==
    [name |-> a.name, shape |-> a.shape, output_size |-> OutputSize(a.shape),
     atomic |-> a.atomic, reducible |-> a.reducible,
     r_differentiable |-> a.r_differentiable,
     c_differentiable |-> a.c_differentiable, intensive |-> a.intensive,
     category |-> a.category, r_hessian |-> a.r_hessian,
     magnetic |-> a.magnetic]

OutputVariableDef(a) ==
    IF InitRaises(a) = NoError THEN Return(InitAttrs(a)) ELSE Raise(InitRaises(a))

\* the size property
size(var_def) == var_def.output_size

\* squeeze(dim): Python's shape[dim] and shape.pop(dim), dim negative from the end
PyIndex(lst, dim) == IF dim < 0 THEN Len(lst) + dim + 1 ELSE dim + 1

\* squeeze had it popped the entry whatever its length
squeeze_any_length(var_def, dim) ==
    IF -Len(var_def.shape) <= dim /\ dim < Len(var_def.shape)
    THEN [var_def EXCEPT !.shape =
             SubSeq(var_def.shape, 1, PyIndex(var_def.shape, dim) - 1)
             \o DropFirst(var_def.shape, PyIndex(var_def.shape, dim))]
    ELSE var_def

squeeze(var_def, dim) ==
    IF -Len(var_def.shape) <= dim /\ dim < Len(var_def.shape)
       /\ var_def.shape[PyIndex(var_def.shape, dim)] = 1
    THEN [var_def EXCEPT !.shape =
             SubSeq(var_def.shape, 1, PyIndex(var_def.shape, dim) - 1)
             \o DropFirst(var_def.shape, PyIndex(var_def.shape, dim))]
    ELSE var_def

(***************************************************************************)
(* check_shape and check_var.                                              *)
(***************************************************************************)
ErrAssert == "AssertionError"
ErrIndex == "IndexError: list index out of range"
ErrKey == "KeyError"
ErrShape == "shape not matching def"
ErrLength == "length not matching def"

\* check_shape had it honoured the wildcard at every position
check_shape_any_wildcard(shape, def_shape) ==
    IF Len(shape) # Len(def_shape) THEN ErrAssert
    ELSE IF Len(def_shape) = 0 THEN ErrIndex
    ELSE IF \A i \in 1..Len(shape) : def_shape[i] = -1 \/ shape[i] = def_shape[i]
         THEN NoError ELSE ErrShape

check_shape(shape, def_shape) ==
    IF Len(shape) # Len(def_shape) THEN ErrAssert
    ELSE IF Len(def_shape) = 0 THEN ErrIndex
    ELSE IF def_shape[Len(def_shape)] = -1 THEN
        IF DropLast(shape) # DropLast(def_shape) THEN ErrShape ELSE NoError
    ELSE
        IF shape # def_shape THEN ErrShape ELSE NoError

check_var(var_shape, var_def) ==
    IF var_def.atomic THEN
        IF Len(var_shape) # Len(var_def.shape) + 2 THEN ErrLength
        ELSE check_shape(DropFirst(var_shape, 2), var_def.shape)
    ELSE
        IF Len(var_shape) # Len(var_def.shape) + 1 THEN ErrLength
        ELSE check_shape(DropFirst(var_shape, 1), var_def.shape)


DefVars == <<def_args, def_obj>>
CatVars == <<category, cat_start, cat_call, applied>>
ShapeVars == <<shape_call>>
ModelVars == <<fit_defs, md, ret, returned, squeezes>>

(***************************************************************************)
(* SpecDef: constructions of an OutputVariableDef, over every combination  *)
(* of the flags.                                                           *)
(***************************************************************************)
\* the entries of the shapes tried
Dims == {-1, 1, 3}

Shapes == SeqsUpTo(Dims, MaxRank)

ArgSpace ==
    {[name |-> "energy", shape |-> s, reducible |-> f[1],
      r_differentiable |-> f[2], c_differentiable |-> f[3], atomic |-> f[4],
      category |-> OUT, r_hessian |-> f[5], magnetic |-> f[6],
      intensive |-> f[7]] : s \in Shapes, f \in [1..7 -> BOOLEAN]}

InitDef ==
    /\ op_name = "init"
    /\ raised = NoError
    /\ def_args \in ArgSpace
    /\ def_obj = None
    /\ category = OUT
    /\ cat_start = OUT
    /\ cat_call = None
    /\ applied = <<>>
    /\ shape_call = None
    /\ fit_defs = <<>>
    /\ md = None
    /\ ret = <<>>
    /\ returned = <<>>
    /\ squeezes = 0

Construct ==
    /\ op_name = "init"
    /\ op_name' = "OutputVariableDef"
    /\ raised' = OutputVariableDef(def_args).raised
    /\ def_obj' = OutputVariableDef(def_args).value
    /\ UNCHANGED <<def_args, CatVars, ShapeVars, ModelVars>>

NextDef == Construct

SpecDef == InitDef /\ [][NextDef]_vars

(***************************************************************************)
(* SpecCat: a thread of apply_operation calls, each result the category of *)
(* the variable definition the next call is given.                         *)
(***************************************************************************)
Categories == 0 .. (2 ^ CategoryBits - 1)

InitCat ==
    /\ op_name = "init"
    /\ raised = NoError
    /\ def_args = None
    /\ def_obj = None
    /\ category \in Categories
    /\ cat_start = category
    /\ cat_call = None
    /\ applied = <<>>
    /\ shape_call = None
    /\ fit_defs = <<>>
    /\ md = None
    /\ ret = <<>>
    /\ returned = <<>>
    /\ squeezes = 0

Apply(op) ==
    LET var_def == [DefaultArgs("energy", <<1>>) EXCEPT !.category = category]
        got == apply_operation(var_def, op)
    IN /\ op_name' = "apply_operation"
       /\ cat_call' = [op |-> op, category |-> category]
       /\ raised' = got.raised
       /\ category' = IF got.raised = NoError THEN got.value ELSE category
       /\ applied' = IF got.raised = NoError THEN Append(applied, op) ELSE applied
       /\ UNCHANGED <<cat_start, DefVars, ShapeVars, ModelVars>>

NextCat == \E op \in OutputVariableOperation : Apply(op)

SpecCat == InitCat /\ [][NextCat]_vars

(***************************************************************************)
(* SpecShape: calls of check_shape and check_var.                          *)
(***************************************************************************)
\* the entries of the shapes checked: the wildcard and three sizes
ShapeDims == {-1, 3, 4, 5}

DefShapes == SeqsUpTo(ShapeDims, MaxRank)

\* the entries of the actual shapes: sizes only
TensorDims == ShapeDims \ {-1}

ActualShapes == SeqsUpTo(TensorDims, MaxRank)

\* a tensor has up to two leading dimensions more than its definition
VarShapes == SeqsUpTo(TensorDims, MaxRank + 2)

ShapeCalls ==
    {[fn |-> "check_shape", shape |-> shape, def_shape |-> def_shape,
      atomic |-> FALSE] : shape \in ActualShapes, def_shape \in DefShapes}
    \cup
    {[fn |-> "check_var", shape |-> var_shape, def_shape |-> def_shape,
      atomic |-> atomic] :
        var_shape \in VarShapes, def_shape \in DefShapes, atomic \in BOOLEAN}

InitShape ==
    /\ op_name = "init"
    /\ raised = NoError
    /\ def_args = None
    /\ def_obj = None
    /\ category = OUT
    /\ cat_start = OUT
    /\ cat_call = None
    /\ applied = <<>>
    /\ shape_call \in ShapeCalls
    /\ fit_defs = <<>>
    /\ md = None
    /\ ret = <<>>
    /\ returned = <<>>
    /\ squeezes = 0

CheckShape ==
    /\ op_name = "init"
    /\ shape_call.fn = "check_shape"
    /\ op_name' = "check_shape"
    /\ raised' = check_shape(shape_call.shape, shape_call.def_shape)
    /\ UNCHANGED <<shape_call, DefVars, CatVars, ModelVars>>

CheckVar ==
    LET var_def == [DefaultArgs("energy", shape_call.def_shape)
                        EXCEPT !.atomic = shape_call.atomic]
    IN /\ op_name = "init"
       /\ shape_call.fn = "check_var"
       /\ op_name' = "check_var"
       /\ raised' = check_var(shape_call.shape, var_def)
       /\ UNCHANGED <<shape_call, DefVars, CatVars, ModelVars>>

NextShape == CheckShape \/ CheckVar

SpecShape == InitShape /\ [][NextShape]_vars


(***************************************************************************)
(* dict helpers: a dict of definitions is the sequence of its values in    *)
(* insertion order, the key of a value being its name.                     *)
(***************************************************************************)
Keys(d) == {d[i].name : i \in 1..Len(d)}

Get(d, k) == d[CHOOSE i \in 1..Len(d) : d[i].name = k]

\* d[v.name] = v: a key already there keeps its place
Put(d, v) ==
    IF v.name \in Keys(d)
    THEN [i \in 1..Len(d) |-> IF d[i].name = v.name THEN v ELSE d[i]]
    ELSE Append(d, v)

\* d.update(e)
RECURSIVE Update(_, _)
Update(d, e) == IF e = <<>> THEN d ELSE Update(Put(d, Head(e)), Tail(e))

(***************************************************************************)
(* The derived names.                                                      *)
(***************************************************************************)
\* get_reduce_name had it shared its suffix with get_deriv_name
get_reduce_name_as_deriv(name) == name \o "_derv_r"

get_reduce_name(name) == name \o "_redu"

get_deriv_name(name) == <<name \o "_derv_r", name \o "_derv_c">>

get_deriv_name_mag(name) == <<name \o "_derv_r_mag", name \o "_derv_c_mag">>

get_hessian_name(name) == name \o "_derv_r_derv_r"

(***************************************************************************)
(* do_reduce, do_mask and do_derivative.  Each loop is a recursion over    *)
(* the items of the dict in order; the first exception ends it.            *)
(***************************************************************************)
\* OutputVariableDef(..., category=apply_operation(vv, op)): the argument is
\* evaluated first, and its exception is the call's
\* (the variant below adds the MAG bit to the category of a magnetic
\* definition)
WithCategory_mag_bit(a, vv, op) ==
    IF apply_operation(vv, op).raised # NoError
    THEN Raise(apply_operation(vv, op).raised)
    ELSE OutputVariableDef(
             [a EXCEPT !.category =
                  BitOr(apply_operation(vv, op).value,
                        IF a.magnetic THEN MAG ELSE OP_NONE)])

WithCategory(a, vv, op) ==
    IF apply_operation(vv, op).raised # NoError
    THEN Raise(apply_operation(vv, op).raised)
    ELSE OutputVariableDef([a EXCEPT !.category = apply_operation(vv, op).value])

\* the definition do_reduce makes of vv
ReducedDef(vv) ==
    WithCategory([DefaultArgs(get_reduce_name(vv.name), vv.shape)
                      EXCEPT !.atomic = FALSE], vv, REDU)

RECURSIVE do_reduce_loop(_, _)
do_reduce_loop(items, def_redu) ==
    IF items = <<>> THEN Return(def_redu)
    ELSE IF ~Head(items).reducible THEN do_reduce_loop(Tail(items), def_redu)
    ELSE IF ReducedDef(Head(items)).raised # NoError
         THEN Raise(ReducedDef(Head(items)).raised)
    ELSE do_reduce_loop(Tail(items), Put(def_redu, ReducedDef(Head(items)).value))

do_reduce(def_outp_data) == do_reduce_loop(def_outp_data, <<>>)

MaskDef(name) == OutputVariableDef(DefaultArgs(name, <<1>>))

\* do_mask had it never added mask_mag
do_mask_loop_no_magnetic(items, def_mask) == Return(def_mask)

RECURSIVE do_mask_loop(_, _)
do_mask_loop(items, def_mask) ==
    IF items = <<>> THEN Return(def_mask)
    ELSE IF ~Head(items).magnetic THEN do_mask_loop(Tail(items), def_mask)
    ELSE do_mask_loop(Tail(items), Put(def_mask, MaskDef("mask_mag").value))

do_mask(def_outp_data) ==
    do_mask_loop(def_outp_data, Put(<<>>, MaskDef("mask").value))

\* the four definitions do_derivative may make of vv
\* (the two variants below set r_differentiable regardless of r_hessian)
DervRDef_always_differentiable(vv, name, magnetic) ==
    WithCategory([DefaultArgs(name, vv.shape \o <<3>>)
                      EXCEPT !.r_differentiable = TRUE,
                             !.magnetic = magnetic], vv, DERV_R)

DervRDef_never_differentiable(vv, name, magnetic) ==
    WithCategory([DefaultArgs(name, vv.shape \o <<3>>)
                      EXCEPT !.magnetic = magnetic], vv, DERV_R)

\* DervRDef had the derivative inherited r_differentiable from vv
DervRDef_inherits_differentiable(vv, name, magnetic) ==
    WithCategory([DefaultArgs(name, vv.shape \o <<3>>)
                      EXCEPT !.r_differentiable = vv.r_differentiable,
                             !.magnetic = magnetic], vv, DERV_R)

DervRDef(vv, name, magnetic) ==
    WithCategory([DefaultArgs(name, vv.shape \o <<3>>)
                      EXCEPT !.r_differentiable =
                                 (vv.r_hessian /\ vv.category = OUT),
                             !.magnetic = magnetic], vv, DERV_R)

DervCDef(vv, name, magnetic) ==
    WithCategory([DefaultArgs(name, vv.shape \o <<9>>)
                      EXCEPT !.reducible = TRUE,
                             !.magnetic = magnetic], vv, DERV_C)

\* the statements of the loop body, each on the two dicts built so far:
\* acc is [raised, r, c], and a statement after an exception is not reached
DervStep(acc, cond, made, into_r) ==
    IF acc.raised # NoError \/ ~cond THEN acc
    ELSE IF made.raised # NoError THEN [acc EXCEPT !.raised = made.raised]
    ELSE IF into_r THEN [acc EXCEPT !.r = Put(acc.r, made.value)]
    ELSE [acc EXCEPT !.c = Put(acc.c, made.value)]

DervAssert(acc, cond, holds) ==
    IF acc.raised # NoError \/ ~cond \/ holds THEN acc
    ELSE [acc EXCEPT !.raised = ErrAssert]

\* the loop body had it put k_derv_c_mag into def_derv_c
do_derivative_body_mag_into_c(acc, vv) ==
    LET rkr == get_deriv_name(vv.name)[1]
        rkc == get_deriv_name(vv.name)[2]
        rkrm == get_deriv_name_mag(vv.name)[1]
        rkcm == get_deriv_name_mag(vv.name)[2]
        s1 == DervStep(acc, vv.r_differentiable, DervRDef(vv, rkr, FALSE), TRUE)
        s2 == DervStep(s1, vv.r_differentiable /\ vv.magnetic,
                       DervRDef(vv, rkrm, TRUE), TRUE)
        s3 == DervAssert(s2, vv.c_differentiable, vv.r_differentiable)
        s4 == DervStep(s3, vv.c_differentiable, DervCDef(vv, rkc, FALSE), FALSE)
        s5 == DervStep(s4, vv.c_differentiable /\ vv.magnetic,
                       DervCDef(vv, rkcm, TRUE), FALSE)
    IN s5

do_derivative_body(acc, vv) ==
    LET rkr == get_deriv_name(vv.name)[1]
        rkc == get_deriv_name(vv.name)[2]
        rkrm == get_deriv_name_mag(vv.name)[1]
        rkcm == get_deriv_name_mag(vv.name)[2]
        s1 == DervStep(acc, vv.r_differentiable, DervRDef(vv, rkr, FALSE), TRUE)
        s2 == DervStep(s1, vv.r_differentiable /\ vv.magnetic,
                       DervRDef(vv, rkrm, TRUE), TRUE)
        s3 == DervAssert(s2, vv.c_differentiable, vv.r_differentiable)
        s4 == DervStep(s3, vv.c_differentiable, DervCDef(vv, rkc, FALSE), FALSE)
        s5 == DervStep(s4, vv.c_differentiable /\ vv.magnetic,
                       DervCDef(vv, rkcm, TRUE), TRUE)
    IN s5

RECURSIVE do_derivative_loop(_, _)
do_derivative_loop(items, acc) ==
    IF items = <<>> \/ acc.raised # NoError THEN acc
    ELSE do_derivative_loop(Tail(items), do_derivative_body(acc, Head(items)))

\* returns def_derv_r as r and def_derv_c as c
do_derivative(def_outp_data) ==
    do_derivative_loop(def_outp_data, [raised |-> NoError, r |-> <<>>, c |-> <<>>])


(***************************************************************************)
(* FittingOutputDef and ModelOutputDef.  The fitting schema's dict is the  *)
(* variable fit_defs; a ModelOutputDef keeps a reference to it as def_outp *)
(* and owns the derived dicts.  var_defs holds references to the objects   *)
(* of the seven dicts: an entry names the dict (src) its object lives in.  *)
(***************************************************************************)
\* {vv.name: vv for vv in var_defs}, one item at a time
FittingOutputDef_add(var_defs, vv) == Put(var_defs, vv)

RefsOf(d, src) == [i \in 1..Len(d) |-> [name |-> d[i].name, src |-> src]]

ModelOutputDef_merge_order ==
    <<"def_outp", "def_redu", "def_derv_c", "def_derv_r", "def_derv_c_redu",
      "def_hess_r", "def_mask">>

\* the dict named src of a ModelOutputDef built from def_outp
SubDict(m, def_outp, src) ==
    CASE src = "def_outp" -> def_outp
      [] src = "def_redu" -> m.def_redu
      [] src = "def_derv_c" -> m.def_derv_c
      [] src = "def_derv_r" -> m.def_derv_r
      [] src = "def_derv_c_redu" -> m.def_derv_c_redu
      [] src = "def_hess_r" -> m.def_hess_r
      [] src = "def_mask" -> m.def_mask

RECURSIVE ModelOutputDef_merge(_, _, _, _)
ModelOutputDef_merge(m, def_outp, order, var_defs) ==
    IF order = <<>> THEN var_defs
    ELSE ModelOutputDef_merge(m, def_outp, Tail(order),
             Update(var_defs, RefsOf(SubDict(m, def_outp, Head(order)), Head(order))))

\* ModelOutputDef.__init__(fit_defs), def_outp_data being fit_defs.get_data()
ModelOutputDef(def_outp_data) ==
    LET redu == do_reduce(def_outp_data)
        derv == do_derivative(def_outp_data)
        hess == do_derivative(derv.r)
        derv_c_redu == do_reduce(derv.c)
        mask == do_mask(def_outp_data)
        m == [def_redu |-> redu.value, def_derv_r |-> derv.r,
              def_derv_c |-> derv.c, def_hess_r |-> hess.r,
              def_derv_c_redu |-> derv_c_redu.value, def_mask |-> mask.value]
    IN IF redu.raised # NoError THEN Raise(redu.raised)
       ELSE IF derv.raised # NoError THEN Raise(derv.raised)
       ELSE IF hess.raised # NoError THEN Raise(hess.raised)
       ELSE IF derv_c_redu.raised # NoError THEN Raise(derv_c_redu.raised)
       ELSE IF mask.raised # NoError THEN Raise(mask.raised)
       ELSE Return([def_redu |-> m.def_redu, def_derv_r |-> m.def_derv_r,
                    def_derv_c |-> m.def_derv_c, def_hess_r |-> m.def_hess_r,
                    def_derv_c_redu |-> m.def_derv_c_redu,
                    def_mask |-> m.def_mask,
                    var_defs |-> ModelOutputDef_merge(m, def_outp_data,
                                     ModelOutputDef_merge_order, <<>>)])

\* the accessors of the ModelOutputDef md built from fit_defs
keys == {md.var_defs[i].name : i \in 1..Len(md.var_defs)}
keys_outp == Keys(fit_defs)
keys_redu == Keys(md.def_redu)
keys_derv_r == Keys(md.def_derv_r)
keys_hess_r == Keys(md.def_hess_r)
keys_derv_c == Keys(md.def_derv_c)
keys_derv_c_redu == Keys(md.def_derv_c_redu)

\* md[key]: the object var_defs refers to
getitem(key) ==
    Get(SubDict(md, fit_defs, Get(md.var_defs, key).src), key)

\* md.get_data(): the objects of var_defs in order
get_data == [i \in 1..Len(md.var_defs) |-> getitem(md.var_defs[i].name)]

(***************************************************************************)
(* SpecModel: a fitting schema is declared one variable at a time, then    *)
(* the ModelOutputDef is built from it.                                    *)
(***************************************************************************)
\* the base names tried: two plain names, the name of the magnetic mask and
\* a name with a reserved suffix
SchemaNames == {"energy", "dipole", "mask_mag", "energy_redu"}

\* the shape each name is declared with
SchemaShape(name) == IF name = "dipole" THEN <<3>> ELSE <<1>>

SchemaCategories == {OUT}

\* the arguments of the constructions that return; intensive, which only
\* __init__ reads, stays at its default
SchemaArgs ==
    {a \in [name : SchemaNames, shape : {<<1>>, <<3>>}, reducible : BOOLEAN,
            r_differentiable : BOOLEAN, c_differentiable : BOOLEAN,
            atomic : BOOLEAN, category : SchemaCategories,
            r_hessian : BOOLEAN, magnetic : BOOLEAN, intensive : {FALSE}] :
        a.shape = SchemaShape(a.name) /\ InitRaises(a) = NoError}

InitModel ==
    /\ op_name = "init"
    /\ raised = NoError
    /\ def_args = None
    /\ def_obj = None
    /\ category = OUT
    /\ cat_start = OUT
    /\ cat_call = None
    /\ applied = <<>>
    /\ shape_call = None
    /\ fit_defs = <<>>
    /\ md = None
    /\ ret = <<>>
    /\ returned = <<>>
    /\ squeezes = 0

\* FittingOutputDef([..., OutputVariableDef(a), ...]): one more variable
Declare(a) ==
    /\ op_name \in {"init", "FittingOutputDef"}
    /\ Len(fit_defs) < MaxVars
    /\ op_name' = "FittingOutputDef"
    /\ raised' = OutputVariableDef(a).raised
    /\ fit_defs' = FittingOutputDef_add(fit_defs, OutputVariableDef(a).value)
    /\ UNCHANGED <<md, ret, returned, squeezes, DefVars, CatVars, ShapeVars>>

\* ModelOutputDef(fit_defs)
Build ==
    /\ op_name \in {"init", "FittingOutputDef"}
    /\ op_name' = "ModelOutputDef"
    /\ raised' = ModelOutputDef(fit_defs).raised
    /\ md' = ModelOutputDef(fit_defs).value
    /\ UNCHANGED <<fit_defs, ret, returned, squeezes, DefVars, CatVars, ShapeVars>>

NextModel == (\E a \in SchemaArgs : Declare(a)) \/ Build

SpecModel == InitModel /\ [][NextModel]_vars


(***************************************************************************)
(* model_check_output: wrapper.__call__.                                   *)
(***************************************************************************)
\* check_var(ret[key], self.md[key]): the two lookups, then the check
CheckedLookup(r, key) ==
    IF key \notin DOMAIN r THEN ErrKey
    ELSE IF key \notin keys THEN ErrKey
    ELSE check_var(r[key], getitem(key))

\* the first exception of a sequence of statements
FirstRaised(stmts) ==
    IF \A i \in 1..Len(stmts) : stmts[i] = NoError THEN NoError
    ELSE stmts[CHOOSE i \in 1..Len(stmts) :
                   /\ stmts[i] # NoError
                   /\ \A j \in 1..(i - 1) : stmts[j] = NoError]

\* the body of the loop over keys_outp()
\* (the variant below is the body without the check of the _derv_c tensor)
model_check_body_no_derv_c(r, kk) ==
    LET dd == getitem(kk)
    IN FirstRaised(<<
           CheckedLookup(r, kk),
           IF dd.reducible THEN CheckedLookup(r, get_reduce_name(kk)) ELSE NoError,
           IF dd.r_differentiable
               THEN CheckedLookup(r, get_deriv_name(kk)[1]) ELSE NoError>>)

model_check_body(r, kk) ==
    LET dd == getitem(kk)
    IN FirstRaised(<<
           CheckedLookup(r, kk),
           IF dd.reducible THEN CheckedLookup(r, get_reduce_name(kk)) ELSE NoError,
           IF dd.r_differentiable
               THEN CheckedLookup(r, get_deriv_name(kk)[1]) ELSE NoError,
           IF dd.c_differentiable /\ ~dd.r_differentiable THEN ErrAssert ELSE NoError,
           IF dd.c_differentiable
               THEN CheckedLookup(r, get_deriv_name(kk)[2]) ELSE NoError>>)

\* wrapper.__call__ with ret the result of cls.__call__: the exception raised
model_check_call(r) ==
    FirstRaised([i \in 1..Len(fit_defs) |-> model_check_body(r, fit_defs[i].name)])

(***************************************************************************)
(* SpecWrap: a fitting schema is declared, the ModelOutputDef is built and *)
(* the wrapped model is called once; the call produces a tensor for every  *)
(* name of the schema, up to MaxFaults of them missing or misshapen.       *)
(***************************************************************************)
WrapNames == {"energy", "mask_mag"}

WrapArgs == {a \in SchemaArgs : a.name \in WrapNames}

\* the shape of a tensor that fits the definition
GoodTensor(var_def) ==
    (IF var_def.atomic THEN <<Frames, LocalAtoms>> ELSE <<Frames>>) \o var_def.shape

Faults == {"missing", "rank", "content"}

FaultyTensor(var_def, fault) ==
    IF fault = "rank" THEN Tail(GoodTensor(var_def))
    ELSE [GoodTensor(var_def) EXCEPT ![Len(GoodTensor(var_def))] = @ + 1]

\* the result mappings a call may produce for the schema built
Results ==
    {[k \in keys \ {f \in DOMAIN faults : faults[f] = "missing"} |->
         IF k \in DOMAIN faults
         THEN FaultyTensor(getitem(k), faults[k])
         ELSE GoodTensor(getitem(k))] :
       faults \in UNION {[F -> Faults] :
                            F \in {G \in SUBSET keys : Cardinality(G) <= MaxFaults}}}

Call ==
    /\ op_name = "ModelOutputDef"
    /\ raised = NoError
    /\ \E r \in Results :
           /\ op_name' = "__call__"
           /\ ret' = r
           /\ raised' = model_check_call(r)
           /\ returned' = IF model_check_call(r) = NoError THEN <<r>> ELSE <<>>
    /\ UNCHANGED <<fit_defs, md, squeezes, DefVars, CatVars, ShapeVars>>

NextWrap == (\E a \in WrapArgs : Declare(a)) \/ Build \/ Call

SpecWrap == InitModel /\ [][NextWrap]_vars


(***************************************************************************)
(* SpecUse: a fitting schema is declared, the ModelOutputDef is built, and *)
(* then the public interface of the two schemas is used: the key           *)
(* accessors, lookups, squeeze on a definition looked up in either schema, *)
(* and calls of the wrapped model.  A definition is an object shared by    *)
(* every dict that holds it: fit_defs[key] is the object of def_outp, and  *)
(* md[key] is the object of the dict var_defs took it from.                *)
(***************************************************************************)
UseNames == {"energy"}

\* the schemas used: one variable, not magnetic
UseArgs == {a \in SchemaArgs : a.name \in UseNames /\ ~a.magnetic}

\* the dims squeeze is called with: the last entry, the first and the second
SqueezeDims == {-1, 0, 1}

\* the result of a call that produces the tensor every definition describes
GoodResult == [k \in keys |-> GoodTensor(getitem(k))]

\* a ModelOutputDef was constructed
Constructed ==
    \/ op_name = "ModelOutputDef" /\ raised = NoError
    \/ op_name \in {"keys", "__getitem__", "squeeze", "__call__"}

\* d[key].squeeze(dim): shape.pop edits the object the dict holds
squeeze_in(d, key, dim) == Put(d, squeeze(Get(d, key), dim))

\* md.keys(), md.keys_outp(), ..., md.get_data(), fit_defs.keys(),
\* fit_defs.get_data(): each returns a dict or its keys and assigns nothing
ReadKeys ==
    /\ Constructed
    /\ op_name' = "keys"
    /\ raised' = NoError
    /\ UNCHANGED <<ModelVars, DefVars, CatVars, ShapeVars>>

\* md[key], for a key of the schema or another name
Lookup ==
    /\ Constructed
    /\ \E key \in keys \cup {"force"} :
           /\ op_name' = "__getitem__"
           /\ raised' = IF key \in keys THEN NoError ELSE ErrKey
    /\ UNCHANGED <<ModelVars, DefVars, CatVars, ShapeVars>>

\* md[key].squeeze(dim)
SqueezeModel ==
    /\ Constructed
    /\ squeezes < MaxSqueezes
    /\ op_name' = "squeeze"
    /\ raised' = NoError
    /\ squeezes' = squeezes + 1
    /\ \E key \in keys, dim \in SqueezeDims :
           LET src == Get(md.var_defs, key).src
           IN IF src = "def_outp"
              THEN fit_defs' = squeeze_in(fit_defs, key, dim) /\ md' = md
              ELSE /\ md' = [md EXCEPT ![src] = squeeze_in(md[src], key, dim)]
                   /\ fit_defs' = fit_defs
    /\ UNCHANGED <<ret, returned, DefVars, CatVars, ShapeVars>>

\* fit_defs[key].squeeze(dim)
SqueezeFitting ==
    /\ Constructed
    /\ squeezes < MaxSqueezes
    /\ op_name' = "squeeze"
    /\ raised' = NoError
    /\ squeezes' = squeezes + 1
    /\ \E key \in keys_outp, dim \in SqueezeDims :
           fit_defs' = squeeze_in(fit_defs, key, dim)
    /\ UNCHANGED <<md, ret, returned, DefVars, CatVars, ShapeVars>>

\* a call of the wrapped model, after any use of the schemas
CallAgain ==
    /\ Constructed
    /\ \E r \in {GoodResult} :
           /\ op_name' = "__call__"
           /\ ret' = r
           /\ raised' = model_check_call(r)
           /\ returned' = IF model_check_call(r) = NoError THEN <<r>> ELSE <<>>
    /\ UNCHANGED <<fit_defs, md, squeezes, DefVars, CatVars, ShapeVars>>

NextUse ==
    \/ \E a \in UseArgs : Declare(a)
    \/ Build
    \/ ReadKeys
    \/ Lookup
    \/ SqueezeModel
    \/ SqueezeFitting
    \/ CallAgain

SpecUse == InitModel /\ [][NextUse]_vars


(***************************************************************************)
(* SpecDerive: as SpecModel, over base variables that are declared with a  *)
(* category: the constructor takes any, and the derivation reads it.       *)
(***************************************************************************)
DeriveNames == {"energy", "dipole"}

\* the categories a base variable is declared with: OUT, the default, and
\* those of a reduced and of a differentiated variable
DeriveCategories == {OUT, REDU, DERV_R, DERV_C}

DeriveArgs ==
    {[a EXCEPT !.category = c] :
        a \in {b \in SchemaArgs : b.name \in DeriveNames},
        c \in DeriveCategories}

NextDerive == (\E a \in DeriveArgs : Declare(a)) \/ Build

SpecDerive == InitModel /\ [][NextDerive]_vars


(***************************************************************************)
(* Helpers of the properties, written without the model's operators.       *)
(***************************************************************************)
\* bit b (a power of two) is set in c
HasBit(c, b) == (c \div b) % 2 = 1

\* the number of entries of seq equal to x
Count(seq, x) == Cardinality({i \in 1..Len(seq) : seq[i] = x})

\* the product of the entries of a shape, from the first entry on
RECURSIVE ShapeProduct(_)
ShapeProduct(s) == IF s = <<>> THEN 1 ELSE Head(s) * ShapeProduct(Tail(s))

FourImplications(a) ==
    /\ a.c_differentiable => a.r_differentiable
    /\ a.reducible => a.atomic
    /\ a.intensive => a.reducible
    /\ a.r_hessian => (a.reducible /\ a.r_differentiable)

(***************************************************************************)
(* Properties of OutputVariableDef.__init__ (SpecDef).                     *)
(***************************************************************************)
\* C1: constructing an OutputVariableDef succeeds exactly when the flags
\* satisfy the four implications; when they do not it raises one of the
\* ValueErrors of __init__, and when they do the size of the object is the
\* product of the entries of its shape.
C1_ConstructionIffImplications ==
    op_name = "OutputVariableDef" =>
        /\ (raised = NoError) <=> FourImplications(def_args)
        /\ raised # NoError =>
               raised \in {ErrCDiff, ErrReducible, ErrIntensive,
                           ErrHessReducible, ErrHessRDiff}
        /\ raised = NoError =>
               /\ size(def_obj) = ShapeProduct(def_args.shape)
               /\ def_obj.shape = def_args.shape

\* a Hessian variable with every flag set and shape [3,3] was constructed
C1_Witness ==
    /\ op_name = "OutputVariableDef"
    /\ raised = NoError
    /\ def_args.intensive /\ def_args.r_hessian /\ def_args.c_differentiable
    /\ def_args.shape = <<3, 3>>
    /\ size(def_obj) = 9

(***************************************************************************)
(* Properties of apply_operation (SpecCat).                                *)
(***************************************************************************)
\* C5: for op REDU or DERV_C, apply_operation raises when the category it is
\* given has the bit of op and otherwise returns that category with the bit
\* added; so in a thread of calls op returns at most once.
C5_ReduAndDervCApplyOnce ==
    /\ \A op \in {REDU, DERV_C} : Count(applied, op) <= 1
    /\ (op_name = "apply_operation" /\ cat_call.op \in {REDU, DERV_C}) =>
           IF HasBit(cat_call.category, cat_call.op)
           THEN raised = ErrApplied /\ category = cat_call.category
           ELSE raised = NoError /\ category = cat_call.category + cat_call.op

\* REDU returned once in the thread and the second REDU raised
C5_Witness ==
    /\ op_name = "apply_operation"
    /\ ~HasBit(cat_start, REDU)
    /\ Count(applied, REDU) = 1
    /\ cat_call.op = REDU
    /\ raised = ErrApplied

\* C6: in a thread that starts from a category without the DERV_R and
\* SEC_DERV_R bits, the first DERV_R sets the DERV_R bit, the second sets the
\* SEC_DERV_R bit and leaves DERV_R set, and every later one raises: DERV_R
\* never returns more than twice.
C6_DervRTwiceThenError ==
    (~HasBit(cat_start, DERV_R) /\ ~HasBit(cat_start, SEC_DERV_R)) =>
        /\ Count(applied, DERV_R) <= 2
        /\ Count(applied, DERV_R) = 0 =>
               ~HasBit(category, DERV_R) /\ ~HasBit(category, SEC_DERV_R)
        /\ Count(applied, DERV_R) = 1 =>
               HasBit(category, DERV_R) /\ ~HasBit(category, SEC_DERV_R)
        /\ Count(applied, DERV_R) = 2 =>
               HasBit(category, DERV_R) /\ HasBit(category, SEC_DERV_R)
        /\ (op_name = "apply_operation" /\ cat_call.op = DERV_R
            /\ raised # NoError) =>
               Count(applied, DERV_R) = 2 /\ raised = ErrAppliedTwice

\* DERV_R returned twice and the third DERV_R raised
C6_Witness ==
    /\ ~HasBit(cat_start, DERV_R) /\ ~HasBit(cat_start, SEC_DERV_R)
    /\ Count(applied, DERV_R) = 2
    /\ op_name = "apply_operation"
    /\ cat_call.op = DERV_R
    /\ raised = ErrAppliedTwice

(***************************************************************************)
(* Properties of check_shape and check_var (SpecShape).                    *)
(***************************************************************************)
CheckShapeOf(shape, def_shape) ==
    /\ op_name = "check_shape"
    /\ shape_call.shape = shape
    /\ shape_call.def_shape = def_shape

\* C7 as stated: check_shape([4,5], [-1,5]) succeeds, check_shape([4,5],
\* [3,5]) fails and check_shape([4], [4,5]) fails on the length mismatch.
C7_Original ==
    /\ CheckShapeOf(<<4, 5>>, <<-1, 5>>) => raised = NoError
    /\ CheckShapeOf(<<4, 5>>, <<3, 5>>) => raised # NoError
    /\ CheckShapeOf(<<4>>, <<4, 5>>) => raised # NoError

\* C7, amended: the wildcard counts in the last position only, so
\* check_shape([4,5], [-1,5]) fails as check_shape([4,5], [3,5]) does, while
\* check_shape([4,5], [4,-1]) succeeds; check_shape([4], [4,5]) fails on the
\* length mismatch.
C7_WildcardOnlyLast ==
    /\ CheckShapeOf(<<4, 5>>, <<-1, 5>>) => raised = ErrShape
    /\ CheckShapeOf(<<4, 5>>, <<4, -1>>) => raised = NoError
    /\ CheckShapeOf(<<4, 5>>, <<3, 5>>) => raised = ErrShape
    /\ CheckShapeOf(<<4>>, <<4, 5>>) => raised = ErrAssert

\* check_shape([4,5], [-1,5]) was called and raised
C7_Witness == CheckShapeOf(<<4, 5>>, <<-1, 5>>) /\ raised = ErrShape

\* the shapes agree as C8 describes it
ShapesAgree(shape, def_shape) ==
    /\ Len(shape) = Len(def_shape)
    /\ IF def_shape # <<>> /\ def_shape[Len(def_shape)] = -1
       THEN \A i \in 1..(Len(def_shape) - 1) : shape[i] = def_shape[i]
       ELSE \A i \in 1..Len(def_shape) : shape[i] = def_shape[i]

\* C8: for all shapes, the empty shape of a scalar included, check_shape
\* succeeds exactly when the two have equal length and agree on every entry
\* (on every entry but the last under a trailing wildcard); otherwise it
\* fails on the mismatch (a ValueError, or the assertion on the lengths).
C8_Claim ==
    op_name = "check_shape" =>
        IF ShapesAgree(shape_call.shape, shape_call.def_shape)
        THEN raised = NoError
        ELSE raised \in {ErrShape, ErrAssert}

\* C9: check_var strips 2 leading dimensions for an atomic definition and 1
\* otherwise; a tensor of another rank fails with the length error, and a
\* tensor of the right rank passes or fails with the content-shape error
\* only.
C9_Claim ==
    op_name = "check_var" =>
        LET strip == IF shape_call.atomic THEN 2 ELSE 1
        IN IF Len(shape_call.shape) # Len(shape_call.def_shape) + strip
           THEN raised = ErrLength
           ELSE IF ShapesAgree(DropFirst(shape_call.shape, strip),
                               shape_call.def_shape)
                THEN raised = NoError
                ELSE raised = ErrShape


(***************************************************************************)
(* Properties of ModelOutputDef (SpecModel).                               *)
(***************************************************************************)
\* s ends in suffix
EndsWith(s, suffix) ==
    /\ Len(s) >= Len(suffix)
    /\ SubSeq(s, Len(s) - Len(suffix) + 1, Len(s)) = suffix

Built == op_name = "ModelOutputDef" /\ raised = NoError

\* the fitting schema holds the one definition energy of C2 and C3
EnergySchema(r_hessian) ==
    /\ Len(fit_defs) = 1
    /\ fit_defs[1].name = "energy"
    /\ fit_defs[1].shape = <<1>>
    /\ fit_defs[1].reducible
    /\ fit_defs[1].r_differentiable
    /\ fit_defs[1].c_differentiable
    /\ fit_defs[1].atomic
    /\ fit_defs[1].r_hessian = r_hessian
    /\ ~fit_defs[1].magnetic

EnergyKeys ==
    {"energy", "energy_redu", "energy_derv_r", "energy_derv_c",
     "energy_derv_c_redu", "mask"}

\* C2: for the schema of the one base definition energy (shape [1],
\* reducible, r_differentiable, c_differentiable, atomic, no Hessian, not
\* magnetic) keys() is energy, energy_redu, energy_derv_r, energy_derv_c,
\* energy_derv_c_redu and mask, and nothing else.
C2_EnergyKeys ==
    (op_name = "ModelOutputDef" /\ EnergySchema(FALSE)) =>
        /\ raised = NoError
        /\ keys = EnergyKeys
        /\ keys_hess_r = {}

\* the ModelOutputDef of that schema was built
C2_Witness ==
    /\ Built
    /\ EnergySchema(FALSE)
    /\ "energy_derv_c_redu" \in keys

\* C3: with r_hessian set on the same base definition, keys() is the six
\* keys of C2 and energy_derv_r_derv_r, whose shape is [1,3,3] and which is
\* the only key of keys_hess_r().
C3_EnergyHessianKeys ==
    (op_name = "ModelOutputDef" /\ EnergySchema(TRUE)) =>
        /\ raised = NoError
        /\ keys = EnergyKeys \cup {"energy_derv_r_derv_r"}
        /\ getitem("energy_derv_r_derv_r").shape = <<1, 3, 3>>
        /\ keys_hess_r = {"energy_derv_r_derv_r"}

\* the ModelOutputDef of the Hessian schema was built
C3_Witness ==
    /\ Built
    /\ EnergySchema(TRUE)
    /\ "energy_derv_r_derv_r" \in keys

BaseDefs == {fit_defs[i] : i \in 1..Len(fit_defs)}

\* which magnetic keys the merged mapping holds, as C4 states it
MagneticKeysAsClaimed ==
    /\ "mask" \in keys
    /\ "mask_mag" \in keys <=> \E vv \in BaseDefs : vv.magnetic
    /\ \A vv \in BaseDefs :
           /\ (vv.name \o "_derv_r_mag") \in keys
                  <=> (vv.magnetic /\ vv.r_differentiable)
           /\ (vv.name \o "_derv_c_mag") \in keys
                  <=> (vv.magnetic /\ vv.c_differentiable)
    /\ (\A vv \in BaseDefs : ~vv.magnetic) =>
           \A k \in keys : ~EndsWith(k, "_mag")

\* C4 as stated: for every fitting schema the merged mapping holds mask,
\* holds mask_mag iff a base variable is magnetic, holds k_derv_r_mag
\* (k_derv_c_mag) iff base variable k is magnetic and r_differentiable
\* (c_differentiable), and holds no key ending in _mag when no base
\* variable is magnetic.
C4_Original == Built => MagneticKeysAsClaimed

\* C4, amended: the same, for every fitting schema none of whose base names
\* itself ends in _mag.
C4_MagneticKeys ==
    (Built /\ \A vv \in BaseDefs : ~EndsWith(vv.name, "_mag")) =>
        MagneticKeysAsClaimed

\* a schema of a magnetic, differentiable energy and a plain dipole was built
C4_Witness ==
    /\ Built
    /\ Keys(fit_defs) = {"energy", "dipole"}
    /\ Get(fit_defs, "energy").magnetic
    /\ Get(fit_defs, "energy").c_differentiable
    /\ ~Get(fit_defs, "dipole").magnetic
    /\ {"mask_mag", "energy_derv_r_mag", "energy_derv_c_mag"} \subseteq keys


ReservedSuffixes ==
    {"_redu", "_derv_r", "_derv_c", "_derv_r_mag", "_derv_c_mag",
     "_derv_r_derv_r"}

\* no base name ends in a reserved suffix, and the base names are distinct
BaseNamesAsRequired ==
    /\ \A vv \in BaseDefs : \A s \in ReservedSuffixes : ~EndsWith(vv.name, s)
    /\ Cardinality(Keys(fit_defs)) = Len(fit_defs)

\* the seven dicts merged into var_defs, in the order of the merge
MergedDicts ==
    <<fit_defs, md.def_redu, md.def_derv_c, md.def_derv_r,
      md.def_derv_c_redu, md.def_hess_r, md.def_mask>>

\* the key sets of the seven dicts are pairwise disjoint and var_defs has
\* as many entries as the seven dicts together
MergedWithoutCollision ==
    /\ \A i, j \in 1..Len(MergedDicts) :
           i # j => Keys(MergedDicts[i]) \cap Keys(MergedDicts[j]) = {}
    /\ Len(md.var_defs) =
           Len(fit_defs) + Len(md.def_redu) + Len(md.def_derv_c)
           + Len(md.def_derv_r) + Len(md.def_derv_c_redu)
           + Len(md.def_hess_r) + Len(md.def_mask)

\* C11 as stated: for every fitting schema whose base names are distinct
\* and none of which ends in a reserved suffix, the seven dicts merged by
\* ModelOutputDef have pairwise disjoint key sets, and the size of var_defs
\* is the sum of their sizes.
C11_Original == (Built /\ BaseNamesAsRequired) => MergedWithoutCollision

\* C11, amended: the same, for every such schema none of whose base names
\* is mask or mask_mag, the two names do_mask gives its definitions.
C11_MergedKeysDisjoint ==
    (Built /\ BaseNamesAsRequired
     /\ \A vv \in BaseDefs : vv.name \notin {"mask", "mask_mag"}) =>
        MergedWithoutCollision

\* a schema of a magnetic energy with every derivative and a reducible
\* dipole was built, and each of the seven dicts has an entry
C11_Witness ==
    /\ Built
    /\ BaseNamesAsRequired
    /\ Keys(fit_defs) = {"energy", "dipole"}
    /\ Get(fit_defs, "energy").magnetic
    /\ Get(fit_defs, "energy").r_hessian
    /\ Get(fit_defs, "energy").c_differentiable
    /\ Get(fit_defs, "dipole").reducible
    /\ \A i \in 1..Len(MergedDicts) : MergedDicts[i] # <<>>
    /\ Len(md.var_defs) = 15


\* C14: for a magnetic, c_differentiable base variable k the definition
\* k_derv_c_mag is reducible, atomic and of shape k shape + [9], is a key
\* of keys_derv_r() and not of keys_derv_c(), and has no _redu counterpart
\* in var_defs; keys_derv_c_redu() is exactly the k_derv_c_redu of the
\* c_differentiable base variables k.
C14_MagneticCellDerivative ==
    Built =>
        /\ \A vv \in BaseDefs :
               (vv.magnetic /\ vv.c_differentiable) =>
                   /\ (vv.name \o "_derv_c_mag") \in keys_derv_r
                   /\ (vv.name \o "_derv_c_mag") \notin keys_derv_c
                   /\ Get(md.def_derv_r, vv.name \o "_derv_c_mag").reducible
                   /\ Get(md.def_derv_r, vv.name \o "_derv_c_mag").atomic
                   /\ Get(md.def_derv_r, vv.name \o "_derv_c_mag").shape
                          = vv.shape \o <<9>>
                   /\ (vv.name \o "_derv_c_mag_redu") \notin keys
        /\ keys_derv_c_redu =
               {vv.name \o "_derv_c_redu" :
                    vv \in {ww \in BaseDefs : ww.c_differentiable}}

\* a schema of a magnetic, c_differentiable dipole and an energy that is
\* not c_differentiable was built
C14_Witness ==
    /\ Built
    /\ Keys(fit_defs) = {"energy", "dipole"}
    /\ Get(fit_defs, "dipole").magnetic
    /\ Get(fit_defs, "dipole").c_differentiable
    /\ ~Get(fit_defs, "energy").c_differentiable
    /\ Get(md.def_derv_r, "dipole_derv_c_mag").shape = <<3, 9>>
    /\ Get(md.def_derv_r, "dipole_derv_c_mag").reducible
    /\ keys_derv_c = {"dipole_derv_c"}
    /\ keys_derv_c_redu = {"dipole_derv_c_redu"}
    /\ "dipole_derv_c_mag_redu" \notin keys


(***************************************************************************)
(* Properties of the model_check_output wrapper (SpecWrap).                *)
(***************************************************************************)
\* the result holds a tensor for key that passes check_var against md[key]
Passes(key) ==
    /\ key \in DOMAIN ret
    /\ key \in keys
    /\ check_var(ret[key], getitem(key)) = NoError

\* every tensor C10 requires of the result is there and passes
RequiredPass ==
    \A vv \in BaseDefs :
        /\ Passes(vv.name)
        /\ vv.reducible => Passes(vv.name \o "_redu")
        /\ vv.r_differentiable => Passes(vv.name \o "_derv_r")
        /\ vv.c_differentiable => Passes(vv.name \o "_derv_c")

ReturnsIffRequiredPass ==
    IF RequiredPass
    THEN raised = NoError /\ returned = <<ret>>
    ELSE raised # NoError /\ returned = <<>>

\* no base name is also the name of a mask or derived definition of the
\* schema: md[k] is the base definition k for every base key k
NoBaseOverwritten ==
    \A vv \in BaseDefs : Get(md.var_defs, vv.name).src = "def_outp"

\* C10 as stated: a call through the wrapper returns the wrapped call's
\* result exactly when, for every base key k, the result holds tensors that
\* pass check_var for k, for k_redu when k is reducible, for k_derv_r when k
\* is r_differentiable and for k_derv_c when k is c_differentiable;
\* otherwise it raises and returns nothing.
C10_Original == op_name = "__call__" => ReturnsIffRequiredPass

\* C10, amended: the same, for every schema in which no base name is also
\* the name of a mask or derived definition (a base variable named mask_mag
\* beside a magnetic one is looked up as the mask, and its flags are not
\* the ones the wrapper reads).
C10_WrapperReturnsIffChecked ==
    (op_name = "__call__" /\ NoBaseOverwritten) => ReturnsIffRequiredPass

\* the result lacked energy_derv_c for a c_differentiable energy, every
\* other tensor being right, and the call raised
C10_Witness ==
    /\ op_name = "__call__"
    /\ NoBaseOverwritten
    /\ Len(fit_defs) = 2
    /\ fit_defs[1].name = "energy"
    /\ fit_defs[1].c_differentiable
    /\ DOMAIN ret = keys \ {"energy_derv_c"}
    /\ \A k \in DOMAIN ret : Passes(k)
    /\ raised = ErrKey
    /\ returned = <<>>


(***************************************************************************)
(* Properties of the schemas in use (SpecUse).                             *)
(***************************************************************************)
\* the content of the model schema and of the fitting schema under it:
\* the definitions each holds, by name, with their shape, flags, category
\* and size
Content == [model |-> get_data, fitting |-> fit_defs]

\* the shapes of the derived definitions of every base key follow the shape
\* of the base definition
ShapesConsistent ==
    \A vv \in BaseDefs :
        /\ vv.reducible =>
               getitem(vv.name \o "_redu").shape = getitem(vv.name).shape
        /\ vv.r_differentiable =>
               getitem(vv.name \o "_derv_r").shape
                   = getitem(vv.name).shape \o <<3>>
        /\ vv.c_differentiable =>
               getitem(vv.name \o "_derv_c").shape
                   = getitem(vv.name).shape \o <<9>>

\* new is old without one of its entries of length 1
RemovedUnit(old, new) ==
    \E i \in 1..Len(old) :
        /\ old[i] = 1
        /\ new = SubSeq(old, 1, i - 1) \o SubSeq(old, i + 1, Len(old))

\* after is before, but for the shape of the definition key, which is the
\* same or has lost one entry of length 1
OnlyShapeOf(key, before, after) ==
    /\ Len(after) = Len(before)
    /\ \A i \in 1..Len(before) :
           IF before[i].name = key
           THEN /\ [before[i] EXCEPT !.shape = after[i].shape] = after[i]
                /\ \/ after[i].shape = before[i].shape
                   \/ RemovedUnit(before[i].shape, after[i].shape)
           ELSE after[i] = before[i]

\* C12 as stated: once a ModelOutputDef is constructed, no public operation
\* (key accessors, lookups, get_data, squeeze on a definition of either
\* schema, wrapper calls) changes the content of var_defs or of the fitting
\* schema, and the derived shapes are consistent with the base shapes in
\* every state reached.
C12_Original ==
    /\ [][Constructed => Content' = Content]_vars
    /\ [](Constructed => ShapesConsistent)

\* C12, amended: once a ModelOutputDef is constructed, the key accessors,
\* lookups, get_data and wrapper calls change nothing of the content of
\* var_defs or of the fitting schema; a squeeze on a definition of either
\* schema changes at most the shape of that one definition, removing one
\* entry of length 1 from it, in both schemas alike.  The derived shapes are
\* consistent with the base shapes when the ModelOutputDef is constructed
\* (no base name being also a derived or mask name), and stay so until a
\* squeeze.
C12_OnlySqueezeChangesShapes ==
    /\ [][Constructed =>
            LET before == Content
                after == Content'
            IN IF op_name' = "squeeze"
               THEN \E key \in keys :
                        /\ OnlyShapeOf(key, before.model, after.model)
                        /\ OnlyShapeOf(key, before.fitting, after.fitting)
               ELSE after = before]_vars
    /\ []((Built /\ NoBaseOverwritten) => ShapesConsistent)
    /\ [][(Constructed /\ ShapesConsistent /\ op_name' # "squeeze") =>
              ShapesConsistent']_vars

\* md["energy"].squeeze(0) took the only entry of the base shape [1], which
\* shows in the fitting schema too, and the model was called afterwards:
\* energy_redu and energy_derv_r keep the shapes derived from [1]
C12_Witness ==
    /\ op_name = "__call__"
    /\ squeezes = 1
    /\ Len(fit_defs) = 1
    /\ fit_defs[1].name = "energy"
    /\ fit_defs[1].reducible
    /\ fit_defs[1].r_differentiable
    /\ fit_defs[1].shape = <<>>
    /\ getitem("energy").shape = <<>>
    /\ getitem("energy_redu").shape = <<1>>
    /\ getitem("energy_derv_r").shape = <<1, 3>>
    /\ ~ShapesConsistent


(***************************************************************************)
(* Properties of the derivation (SpecDerive).                              *)
(***************************************************************************)
\* every base variable has category OUT
AllOut == \A vv \in BaseDefs : vv.category = OUT

\* the definitions a dict holds
Values(d) == {d[i] : i \in 1..Len(d)}

\* C13: for every fitting schema whose base variables have category OUT, a
\* first-derivative definition is r_differentiable only if it is the
\* coordinate derivative of a base variable with r_hessian; keys_hess_r() is
\* non-empty exactly when some base variable has r_hessian; no definition
\* of def_hess_r is r_differentiable (nor c_differentiable), and
\* do_derivative of def_hess_r returns two empty dicts.
C13_DerivationStops ==
    (Built /\ AllOut) =>
        /\ \A dd \in Values(md.def_derv_r) \cup Values(md.def_derv_c) :
               dd.r_differentiable =>
                   \E vv \in BaseDefs :
                       /\ vv.r_hessian
                       /\ dd.name \in {vv.name \o "_derv_r",
                                       vv.name \o "_derv_r_mag"}
        /\ (keys_hess_r # {}) <=> (\E vv \in BaseDefs : vv.r_hessian)
        /\ \A dd \in Values(md.def_hess_r) :
               ~dd.r_differentiable /\ ~dd.c_differentiable
        /\ do_derivative(md.def_hess_r).raised = NoError
        /\ do_derivative(md.def_hess_r).r = <<>>
        /\ do_derivative(md.def_hess_r).c = <<>>

\* a schema of a magnetic energy with a Hessian and an r_differentiable
\* dipole without one was built: def_hess_r holds the three second
\* derivatives of energy and none of dipole
C13_Witness ==
    /\ Built
    /\ AllOut
    /\ Keys(fit_defs) = {"energy", "dipole"}
    /\ Get(fit_defs, "energy").r_hessian
    /\ Get(fit_defs, "energy").magnetic
    /\ Get(fit_defs, "dipole").r_differentiable
    /\ ~Get(fit_defs, "dipole").r_hessian
    /\ Get(md.def_derv_r, "energy_derv_r").r_differentiable
    /\ ~Get(md.def_derv_r, "dipole_derv_r").r_differentiable
    /\ keys_hess_r = {"energy_derv_r_derv_r", "energy_derv_r_mag_derv_r",
                      "energy_derv_r_mag_derv_r_mag"}


\* the categories C15 names: OUT, REDU, DERV_R, DERV_C, DERV_C|REDU and
\* DERV_R|SECOND_DERV_R
ClosedCategories ==
    {OUT, REDU, DERV_R, DERV_C, DERV_C + REDU, DERV_R + SEC_DERV_R}

\* C15: for every fitting schema whose base variables all have category
\* OUT, ModelOutputDef(...) raises no operation-already-applied error, and
\* every definition of var_defs has one of the six categories OUT, REDU,
\* DERV_R, DERV_C, DERV_C|REDU, DERV_R|SECOND_DERV_R; the MAG bit is set in
\* no category, not even in that of a definition whose name ends in _mag.
C15_CategoriesClosed ==
    (op_name = "ModelOutputDef" /\ AllOut) =>
        /\ raised \notin {ErrApplied, ErrAppliedTwice}
        /\ raised = NoError =>
               \A dd \in Values(get_data) :
                   /\ dd.category \in ClosedCategories
                   /\ ~HasBit(dd.category, MAG)

\* a schema of a magnetic energy with a Hessian and cell derivatives was
\* built: var_defs holds definitions of all six categories, and the
\* magnetic derivatives have the categories of the plain ones
C15_Witness ==
    /\ Built
    /\ AllOut
    /\ Keys(fit_defs) = {"energy"}
    /\ Get(fit_defs, "energy").magnetic
    /\ Get(fit_defs, "energy").r_hessian
    /\ Get(fit_defs, "energy").c_differentiable
    /\ {dd.category : dd \in Values(get_data)} = ClosedCategories
    /\ getitem("energy_derv_r_mag").category = DERV_R
    /\ getitem("energy_derv_c_mag").category = DERV_C
    /\ getitem("energy_derv_r_mag_derv_r_mag").category = DERV_R + SEC_DERV_R


====
